---- MODULE Spec2Model ----
(***************************************************************************)
(* A model of IMID.py, the Interactive Media Intelligence Dashboard        *)
(* script: process_csv_data (loader / validator), the five aggregation     *)
(* blocks of generate_charts_and_insights, generate_recap_text and the     *)
(* __main__ control flow.                                                  *)
(*                                                                         *)
(* Representation.                                                         *)
(*  - A column name is a sequence of one-character strings, so that        *)
(*    lower() and replace(' ', '_') act on it character by character.      *)
(*  - A cell is a record with a field k: "nan" (NaN / NaT / missing),      *)
(*    "text" (a non-numeric string; s is its rank in lexicographic order), *)
(*    "num" (a number; v is its value in tenths, so 15 is 1.5),            *)
(*    "datestr" (a parseable date string), "ts" (a Timestamp; v counts     *)
(*    slots of a day since the epoch), "date" (a datetime.date; s is the   *)
(*    day number), "int" (an int64; v is its value).                       *)
(*  - A DataFrame is a record [k, columns, rows]; a row is the sequence of *)
(*    its cells, aligned with columns.                                     *)
(*  - Percentages are kept in hundredths of a percent (two decimals).      *)
(***************************************************************************)
EXTENDS Integers, Sequences, FiniteSets, TLC

VARIABLES
    pc,               \* position of the run in __main__ / the called function
    file,             \* what csv_file_path resolves to
    df,               \* the local df of process_csv_data
    outcome,          \* which message process_csv_data printed
    missing_columns,  \* the names printed with "Missing required columns"
    processed_df,     \* processed_df of __main__
    out_dir,          \* whether the output directory exists
    files,            \* the files written so far
    views,            \* the five aggregate tables of generate_charts_and_insights
    insights,         \* all_insights of __main__
    chart_files,      \* generated_chart_files of __main__
    recap             \* recap_content of __main__, a sequence of lines

vars == <<pc, file, df, outcome, missing_columns, processed_df, out_dir, files,
          views, insights, chart_files, recap>>

-----------------------------------------------------------------------------
(* Bounds of the model.                                                    *)

MaxRows == 3         \* rows of a raw input file
MaxMissing == 2      \* required columns a raw header may lack
MaxTopRows == 7      \* rows of a table given to the Top Locations block
NumLocs == 6         \* locations of such a table
MaxInsights == 2     \* sentences of one insight list given to the recap

-----------------------------------------------------------------------------
(* Cells.                                                                  *)

NaN == [k |-> "nan"]
Text(r) == [k |-> "text", s |-> r]
Num(t) == [k |-> "num", v |-> t]
DateStr(d, slot) == [k |-> "datestr", day |-> d, slot |-> slot]
Timestamp(n) == [k |-> "ts", v |-> n]
Date(d) == [k |-> "date", s |-> d]
Int64(n) == [k |-> "int", v |-> n]

isna(c) == c.k = "nan"

None == [k |-> "None"]
DataFrame(cols, rws) == [k |-> "DataFrame", columns |-> cols, rows |-> rws]

\* A day has SlotsPerDay representable times of day.
SlotsPerDay == 2

-----------------------------------------------------------------------------
(* Column names.                                                           *)

UpperCase == <<"A","B","C","D","E","F","G","H","I","J","K","L","M",
               "N","O","P","Q","R","S","T","U","V","W","X","Y","Z">>
LowerCase == <<"a","b","c","d","e","f","g","h","i","j","k","l","m",
               "n","o","p","q","r","s","t","u","v","w","x","y","z">>

\* str.lower() on one character
lower(c) ==
    IF \E i \in 1..Len(UpperCase) : UpperCase[i] = c
    THEN LowerCase[CHOOSE i \in 1..Len(UpperCase) : UpperCase[i] = c]
    ELSE c

\* str.replace(' ', '_') on one character
replace_space(c) == IF c = " " THEN "_" ELSE c

\* A column name with replace(' ', '_') left out.
normalize_lower_only(name) == [i \in 1..Len(name) |-> lower(name[i])]

normalize_column_name(name) ==
    [i \in 1..Len(name) |-> replace_space(lower(name[i]))]

c_date == <<"d","a","t","e">>
c_platform == <<"p","l","a","t","f","o","r","m">>
c_sentiment == <<"s","e","n","t","i","m","e","n","t">>
c_location == <<"l","o","c","a","t","i","o","n">>
c_engagements == <<"e","n","g","a","g","e","m","e","n","t","s">>
c_media_type == <<"m","e","d","i","a","_","t","y","p","e">>

required_columns ==
    <<c_date, c_platform, c_sentiment, c_location, c_engagements, c_media_type>>

\* Position of column name in df.columns (df[name]); the first, when repeated.
ColumnIndex(d, name) ==
    CHOOSE i \in 1..Len(d.columns) :
        /\ d.columns[i] = name
        /\ \A j \in 1..(i - 1) : d.columns[j] # name

Column(d, name) ==
    LET i == ColumnIndex(d, name)
    IN  [r \in 1..Len(d.rows) |-> d.rows[r][i]]

\* df[name] = cells
SetColumn(d, name, cells) ==
    LET i == ColumnIndex(d, name)
    IN  [d EXCEPT !.rows = [r \in 1..Len(d.rows) |->
                               [d.rows[r] EXCEPT ![i] = cells[r]]]]

-----------------------------------------------------------------------------
(* process_csv_data: the column-wise conversions.                          *)

\* pd.to_datetime(..., errors='coerce') on one cell
to_datetime(c) ==
    IF c.k = "datestr" THEN Timestamp(c.day * SlotsPerDay + c.slot) ELSE NaN

\* df.dropna() without subset: the rows with no NaN cell at all
dropna_any(d, name) ==
    LET keep(row) == \A i \in 1..Len(row) : ~isna(row[i])
    IN  [d EXCEPT !.rows = SelectSeq(d.rows, keep)]

\* df.dropna(subset=[name]): the rows whose cell in that column is not NaN,
\* in their original order
dropna(d, name) ==
    LET i == ColumnIndex(d, name)
        keep(row) == ~isna(row[i])
    IN  [d EXCEPT !.rows = SelectSeq(d.rows, keep)]

\* a test that takes no table for empty
empty_never(d) == FALSE

\* df.empty
empty(d) == d.rows = <<>>

\* pd.to_numeric(..., errors='coerce') on one cell
to_numeric(c) == IF c.k = "num" THEN c ELSE NaN

\* .fillna(0) on one cell
fillna0(c) == IF isna(c) THEN Num(0) ELSE c

\* .astype(int) on one (non-NaN) float: truncation toward zero
astype_int(c) ==
    IF c.v >= 0 THEN Int64(c.v \div 10) ELSE Int64(-((-c.v) \div 10))

\* pd.to_numeric(df['engagements'], errors='coerce').fillna(0).astype(int)
coerce_engagements(c) == astype_int(fillna0(to_numeric(c)))

\* [col for col in required_columns if col not in df.columns]
MissingFrom(cols) ==
    LET absent(col) == \A i \in 1..Len(cols) : cols[i] # col
    IN  SelectSeq(required_columns, absent)

-----------------------------------------------------------------------------
(* generate_charts_and_insights: the pandas operations it is built from.   *)

RECURSIVE SumSeq(_)
\* Series.sum()
SumSeq(s) == IF s = <<>> THEN 0 ELSE Head(s) + SumSeq(Tail(s))

Range(s) == {s[i] : i \in 1..Len(s)}

RECURSIVE SortAsc(_)
\* the ranks of a set of keys in ascending order
SortAsc(S) ==
    IF S = {} THEN <<>>
    ELSE LET m == CHOOSE x \in S : \A y \in S : x <= y
         IN  <<m>> \o SortAsc(S \ {m})

\* A table of two columns: a sequence of [key, val] entries.
Entry(key, val) == [key |-> key, val |-> val]

\* the val column of a two-column table
Vals(t) == [i \in 1..Len(t) |-> t[i].val]

\* the entries of a value_counts table before they are sorted: one per
\* distinct cell (NaN included, dropna=False), in order of first appearance
CountsUnsorted(col) ==
    LET first(i) == \A j \in 1..(i - 1) : col[j] # col[i]
        idx == SelectSeq([i \in 1..Len(col) |-> i], first)
    IN  [n \in 1..Len(idx) |->
            Entry(col[idx[n]],
                  Cardinality({i \in 1..Len(col) : col[i] = col[idx[n]]}))]

IsDescending(t) == \A i \in 1..(Len(t) - 1) : t[i].val >= t[i + 1].val

\* the orders sort_values(ascending=False) may leave a table in: descending
\* by val, entries of equal val in an order pandas does not promise
SortedDescending(t) ==
    LET n == Len(t)
        perms == {p \in [1..n -> 1..n] : \A i, j \in 1..n : i # j => p[i] # p[j]}
    IN  {s \in {[i \in 1..n |-> t[p[i]]] : p \in perms} : IsDescending(s)}

\* Series.value_counts(dropna=False).reset_index(): the tables it may return
value_counts(col) == SortedDescending(CountsUnsorted(col))

\* df.groupby(key)[val].sum().reset_index(): one entry per distinct key that
\* is not missing (dropna=True is the default), in ascending order of the key
\* (sort=True is the default), val the sum over the rows of that key
groupby_sum(keys, vals) ==
    LET present == {c \in Range(keys) : ~isna(c)}
        order == SortAsc({c.s : c \in present})
        cell(r) == CHOOSE c \in present : c.s = r
        total(c) == SumSeq([i \in 1..Len(keys) |->
                               IF keys[i] = c THEN vals[i].v ELSE 0])
    IN  [n \in 1..Len(order) |-> Entry(cell(order[n]), total(cell(order[n])))]

\* Series.idxmax(): the first position of the largest value
idxmax(t) ==
    CHOOSE i \in 1..Len(t) :
        /\ \A j \in 1..Len(t) : t[j].val <= t[i].val
        /\ \A j \in 1..(i - 1) : t[j].val < t[i].val

\* Series.idxmin(): the first position of the smallest value
idxmin(t) ==
    CHOOSE i \in 1..Len(t) :
        /\ \A j \in 1..Len(t) : t[j].val >= t[i].val
        /\ \A j \in 1..(i - 1) : t[j].val > t[i].val

RemoveAt(s, i) == SubSeq(s, 1, i - 1) \o SubSeq(s, i + 1, Len(s))

RECURSIVE StableDescending(_)
\* descending by val, entries of equal val in their order of appearance
StableDescending(t) ==
    IF t = <<>> THEN <<>>
    ELSE LET i == idxmax(t)
         IN  <<t[i]>> \o StableDescending(RemoveAt(t, i))

Min(a, b) == IF a <= b THEN a ELSE b

\* the n first entries of the series as it stands, not the n largest
head(t, n) == SubSeq(t, 1, Min(n, Len(t)))

\* Series.nlargest(n) (keep='first'): the n largest entries in descending
\* order, entries of equal val in their order of appearance in the series
nlargest(t, n) == SubSeq(StableDescending(t), 1, Min(n, Len(t)))

\* Timestamp.date() (Series.dt.date): the calendar day of a timestamp
dt_date(c) == Date(c.v \div SlotsPerDay)

\* date.strftime('%Y-%m-%d'): ISO strings are ordered as their days are
strftime(d) == Text(d.s)

\* (part / total * 100).round(2), in hundredths of a percent, for total > 0;
\* numpy rounds a half to the even neighbour
percentage(part, total) ==
    LET x == part * 10000
        q == x \div total
        r == x % total
    IN  IF 2 * r < total THEN q
        ELSE IF 2 * r > total THEN q + 1
        ELSE IF q % 2 = 0 THEN q ELSE q + 1

-----------------------------------------------------------------------------
(* generate_charts_and_insights: the five blocks.                          *)

\* the n of nlargest(5)
TopN == 5

\* the 'N/A' a block reports for an empty table
NA == [k |-> "N/A"]

output_folder == "media_analysis_output"

chart_names ==
    <<"sentiment_breakdown_pie.html", "engagement_trend_line.html",
      "platform_engagements_bar.html", "media_type_mix_pie.html",
      "top_locations_bar.html">>

recap_name == "media_intelligence_recap.txt"

\* os.path.join(output_dir, name)
path_join(dir, name) == <<dir, name>>

\* --- 1. Sentiment Breakdown: sc is sentiment_counts
sentiment_insights(sc) ==
    LET total_sentiments == SumSeq(Vals(sc))
        top_sentiment == IF sc # <<>> THEN sc[1].key ELSE NA
        top_sentiment_percentage ==
            IF total_sentiments > 0
            THEN percentage(sc[1].val, total_sentiments) ELSE 0
        lowest_sentiment == IF Len(sc) > 0 THEN sc[Len(sc)].key ELSE NA
    IN  << [t |-> "dominant sentiment", name |-> top_sentiment,
            pct |-> top_sentiment_percentage],
           [t |-> "least frequent sentiment", name |-> lowest_sentiment],
           [t |-> "sentiment entries analyzed", n |-> total_sentiments] >>

\* --- 2. Engagement Trend
engagement_by_date(d) ==
    LET dates == Column(d, c_date)
    IN  groupby_sum([i \in 1..Len(dates) |-> dt_date(dates[i])],
                    Column(d, c_engagements))

\* the block reporting the first day of the table
max_engagement_date_first_day(ebd) ==
    IF ebd # <<>> THEN strftime(ebd[1].key) ELSE NA

max_engagement_date(ebd) ==
    IF ebd # <<>> THEN strftime(ebd[idxmax(ebd)].key) ELSE NA

min_engagement_date(ebd) ==
    IF ebd # <<>> THEN strftime(ebd[idxmin(ebd)].key) ELSE NA

trend_insights(ebd) ==
    LET total_engagements == IF ebd # <<>> THEN SumSeq(Vals(ebd)) ELSE 0
    IN  << [t |-> "highest engagement on", date |-> max_engagement_date(ebd)],
           [t |-> "lowest engagement on", date |-> min_engagement_date(ebd)],
           [t |-> "total engagements", n |-> total_engagements] >>

\* --- 3. Platform Engagements
engagements_by_platform(d) ==
    groupby_sum(Column(d, c_platform), Column(d, c_engagements))

platform_insights(ebp) ==
    LET top_platform == IF ebp # <<>> THEN ebp[idxmax(ebp)].key ELSE NA
        max_platform_engagement == IF ebp # <<>> THEN ebp[idxmax(ebp)].val ELSE 0
        total_platform_engagements == IF ebp # <<>> THEN SumSeq(Vals(ebp)) ELSE 0
        top_platform_percentage ==
            IF total_platform_engagements > 0
            THEN percentage(max_platform_engagement, total_platform_engagements)
            ELSE 0
    IN  << [t |-> "leading platform", name |-> top_platform,
            pct |-> top_platform_percentage],
           [t |-> "sum of engagements across all platforms",
            n |-> total_platform_engagements],
           [t |-> "advice: platforms with lower engagement"] >>

\* --- 4. Media Type Mix: mc is media_type_counts
media_type_insights(mc) ==
    LET total_media_types == SumSeq(Vals(mc))
        top_media_type == IF mc # <<>> THEN mc[1].key ELSE NA
        top_media_type_percentage ==
            IF total_media_types > 0
            THEN percentage(mc[1].val, total_media_types) ELSE 0
    IN  << [t |-> "most prevalent media type", name |-> top_media_type,
            pct |-> top_media_type_percentage],
           [t |-> "advice: diversity in media types"],
           [t |-> "advice: analyze media type performance"] >>

\* --- 5. Top 5 Locations
location_totals(d) ==
    groupby_sum(Column(d, c_location), Column(d, c_engagements))

engagements_by_location(d) == nlargest(location_totals(d), TopN)

top_locations_insights(ebl) ==
    LET top_location_name == IF ebl # <<>> THEN ebl[1].key ELSE NA
    IN  << [t |-> "top location", name |-> top_location_name],
           [t |-> "advice: key geographical areas"],
           [t |-> "advice: regional preferences"] >>

-----------------------------------------------------------------------------
(* generate_recap_text.                                                    *)

\* the dict literal of the loop: section title and key of insights, in order
sections ==
    << [title |-> "Sentiment Breakdown Insights", key |-> "sentiment"],
       [title |-> "Engagement Trend Over Time Insights", key |-> "engagements_trend"],
       [title |-> "Platform Engagements Insights", key |-> "platform_engagements"],
       [title |-> "Media Type Mix Insights", key |-> "media_type"],
       [title |-> "Top 5 Locations by Engagements Insights", key |-> "top_locations"] >>

\* insights.get(key, [])
get(ins, key) == IF key \in DOMAIN ins THEN ins[key] ELSE <<>>

\* the section written whether or not its list is empty
section_lines_always(title, insight_list) ==
    <<  <<"## ", title>>  >>
    \o [i \in 1..Len(insight_list) |-> <<"- ", insight_list[i]>>]
    \o << <<>> >>

\* A line of the recap is what precedes one "\n": the empty line <<>>, or a
\* prefix ("# ", "## ", "- ") and the text after it.
section_lines(title, insight_list) ==
    IF insight_list # <<>>
    THEN <<  <<"## ", title>>  >>
         \o [i \in 1..Len(insight_list) |-> <<"- ", insight_list[i]>>]
         \o << <<>> >>
    ELSE <<>>

RECURSIVE recap_from(_, _)
\* the lines the loop adds from section n on
recap_from(ins, n) ==
    IF n > Len(sections) THEN <<>>
    ELSE section_lines(sections[n].title, get(ins, sections[n].key))
         \o recap_from(ins, n + 1)

generate_recap_text(ins) ==
    << <<"# ", "Media Intelligence Dashboard Recap">>, <<>> >> \o recap_from(ins, 1)

-----------------------------------------------------------------------------
(* The inputs of a run.                                                    *)

Fields == 1..Len(required_columns)

TitleNames ==
    << <<"D","a","t","e">>, <<"P","l","a","t","f","o","r","m">>,
       <<"S","e","n","t","i","m","e","n","t">>,
       <<"L","o","c","a","t","i","o","n">>,
       <<"E","n","g","a","g","e","m","e","n","t","s">>,
       <<"M","e","d","i","a"," ","T","y","p","e">> >>

UpperNames ==
    << <<"D","A","T","E">>, <<"P","L","A","T","F","O","R","M">>,
       <<"S","E","N","T","I","M","E","N","T">>,
       <<"L","O","C","A","T","I","O","N">>,
       <<"E","N","G","A","G","E","M","E","N","T","S">>,
       <<"M","E","D","I","A"," ","T","Y","P","E">> >>

HeaderStyles == {required_columns, TitleNames, UpperNames}

\* a column the script does not ask for
ExtraColumn == <<"U","R","L">>

\* a raw file: the header names[f] for the fields f kept, then the extra
\* column if any; each row (one cell per field) cut down to those columns
RawTable(names, kept, extra, rws) ==
    LET fs == SortAsc(kept)
        cols == [i \in 1..Len(fs) |-> names[fs[i]]]
        cut(row) == [i \in 1..Len(fs) |-> row[fs[i]]]
    IN  [k |-> "table",
         columns |-> IF extra THEN Append(cols, ExtraColumn) ELSE cols,
         rows |-> [r \in 1..Len(rws) |->
                     IF extra THEN Append(cut(rws[r]), Text(1)) ELSE cut(rws[r])]]

SeqsUpTo(S, n) == UNION {[1..m -> S] : m \in 0..n}

\* rows trying the loader: the date varies, the engagements are no number
LoaderRows ==
    {<<d, Text(1), Text(1), Text(1), e, Text(1)>> :
        d \in {Text(1), DateStr(1, 0), DateStr(2, 1)},
        e \in {NaN, Text(1)}}

\* rows trying the platform view: the platform and the engagements vary
PlatformRows ==
    {<<DateStr(1, 0), p, Text(1), Text(1), e, Text(1)>> :
        p \in {NaN, Text(1), Text(2)},
        e \in {Num(-15), Num(25)}}

\* rows trying the engagement trend: the time and the engagements vary
TrendRows ==
    {<<d, Text(1), Text(1), Text(1), e, Text(1)>> :
        d \in {DateStr(1, 0), DateStr(1, 1), DateStr(2, 0)},
        e \in {Num(10), Num(20)}}

\* rows trying the two counted views: sentiment and media type vary
CategoryRows ==
    {<<DateStr(1, 0), Text(1), s, Text(1), Num(10), m>> :
        s \in {NaN, Text(1), Text(2)},
        m \in {NaN, Text(1)}}

\* rows under a header that may lack columns
HeaderRows ==
    {<<d, Text(1), Text(1), Text(1), Num(10), Text(1)>> :
        d \in {NaN, DateStr(1, 0)}}

DataFiles ==
    {RawTable(TitleNames, Fields, FALSE, rws) :
        rws \in SeqsUpTo(LoaderRows, MaxRows) \cup SeqsUpTo(PlatformRows, MaxRows)
                \cup SeqsUpTo(TrendRows, MaxRows) \cup SeqsUpTo(CategoryRows, MaxRows)}

HeaderFiles ==
    {RawTable(names, Fields \ dropped, extra, rws) :
        names \in HeaderStyles,
        dropped \in {D \in SUBSET Fields : Cardinality(D) <= MaxMissing},
        extra \in BOOLEAN,
        rws \in SeqsUpTo(HeaderRows, 1)}

\* a path that does not resolve, a file with nothing to parse, a file pandas
\* cannot parse
UnreadableFiles == {[k |-> "absent"], [k |-> "no columns"], [k |-> "malformed"]}

Files == UnreadableFiles \cup HeaderFiles \cup DataFiles

-----------------------------------------------------------------------------
(* The run: __main__ and the functions it calls.                           *)

Init ==
    /\ pc = "read_csv"
    /\ file \in Files
    /\ df = None
    /\ outcome = "none"
    /\ missing_columns = <<>>
    /\ processed_df = None
    /\ out_dir = FALSE
    /\ files = {}
    /\ views = None
    /\ insights = None
    /\ chart_files = <<>>
    /\ recap = <<>>

\* process_csv_data returning None after printing the message `why`
ReturnNone(why) ==
    /\ outcome' = why
    /\ processed_df' = None
    /\ pc' = "main"

\* process_csv_data, the try block around pd.read_csv
ReadCsv ==
    /\ pc = "read_csv"
    /\ \/ /\ file.k = "absent"
          /\ ReturnNone("NotFound")
          /\ df' = None
       \/ /\ file.k = "no columns"
          /\ ReturnNone("EmptyInput")
          /\ df' = None
       \/ /\ file.k = "malformed"
          /\ ReturnNone("ReadError")
          /\ df' = None
       \/ /\ file.k = "table"
          /\ df' = DataFrame(file.columns, file.rows)
          /\ pc' = "columns"
          /\ UNCHANGED <<outcome, processed_df>>
    /\ UNCHANGED <<file, missing_columns, out_dir, files, views, insights,
                   chart_files, recap>>

\* process_csv_data: the column names are normalized and the required ones
\* looked for
CheckColumns ==
    /\ pc = "columns"
    /\ LET normalized == [df EXCEPT !.columns =
                             [i \in 1..Len(df.columns) |->
                                 normalize_column_name(df.columns[i])]]
           missing == MissingFrom(normalized.columns)
       IN  /\ df' = normalized
           /\ \/ /\ missing # <<>>
                 /\ missing_columns' = missing
                 /\ ReturnNone("MissingColumns")
              \/ /\ missing = <<>>
                 /\ pc' = "dates"
                 /\ UNCHANGED <<missing_columns, outcome, processed_df>>
    /\ UNCHANGED <<file, out_dir, files, views, insights, chart_files, recap>>

\* process_csv_data: the dates are parsed and the rows without one dropped
CleanDates ==
    /\ pc = "dates"
    /\ LET dates == Column(df, c_date)
           parsed == [r \in 1..Len(dates) |-> to_datetime(dates[r])]
           cleaned == dropna(SetColumn(df, c_date, parsed), c_date)
       IN  /\ df' = cleaned
           /\ \/ /\ empty(cleaned)
                 /\ ReturnNone("NoValidRows")
              \/ /\ ~empty(cleaned)
                 /\ pc' = "engagements"
                 /\ UNCHANGED <<outcome, processed_df>>
    /\ UNCHANGED <<file, missing_columns, out_dir, files, views, insights,
                   chart_files, recap>>

\* process_csv_data: the engagements are made integers and df is returned
CoerceEngagements ==
    /\ pc = "engagements"
    /\ LET raw == Column(df, c_engagements)
       IN  df' = SetColumn(df, c_engagements,
                           [r \in 1..Len(raw) |-> coerce_engagements(raw[r])])
    /\ processed_df' = df'
    /\ outcome' = "ok"
    /\ pc' = "main"
    /\ UNCHANGED <<file, missing_columns, out_dir, files, views, insights,
                   chart_files, recap>>

\* __main__ making the output directory before it looks at processed_df
MainBranchMakingDirectory ==
    /\ pc = "main"
    /\ out_dir' = TRUE
    /\ LET proceed == IF processed_df = None THEN FALSE
                      ELSE ~empty(processed_df)
       IN  \/ /\ proceed
              /\ pc' = "generate"
           \/ /\ ~proceed
              /\ pc' = "finish"
    /\ UNCHANGED <<file, df, outcome, missing_columns, processed_df,
                   files, views, insights, chart_files, recap>>

\* __main__: if processed_df is not None and not processed_df.empty
MainBranch ==
    /\ pc = "main"
    /\ LET proceed == IF processed_df = None THEN FALSE
                      ELSE ~empty(processed_df)
       IN  \/ /\ proceed
              /\ pc' = "generate"
           \/ /\ ~proceed
              /\ pc' = "finish"
    /\ UNCHANGED <<file, df, outcome, missing_columns, processed_df, out_dir,
                   files, views, insights, chart_files, recap>>

\* generate_charts_and_insights(processed_df, output_folder)
GenerateChartsAndInsights ==
    /\ pc = "generate"
    /\ \E sc \in value_counts(Column(processed_df, c_sentiment)),
          mc \in value_counts(Column(processed_df, c_media_type)) :
          LET ebd == engagement_by_date(processed_df)
              ebp == engagements_by_platform(processed_df)
              ebl == engagements_by_location(processed_df)
          IN  /\ views' = [k |-> "views",
                           sentiment_counts |-> sc,
                           engagement_by_date |-> ebd,
                           engagements_by_platform |-> ebp,
                           media_type_counts |-> mc,
                           engagements_by_location |-> ebl]
              /\ insights' = [sentiment |-> sentiment_insights(sc),
                              engagements_trend |-> trend_insights(ebd),
                              platform_engagements |-> platform_insights(ebp),
                              media_type |-> media_type_insights(mc),
                              top_locations |-> top_locations_insights(ebl)]
    /\ out_dir' = TRUE
    /\ files' = files \cup {path_join(output_folder, chart_names[i]) :
                               i \in 1..Len(chart_names)}
    /\ chart_files' = [i \in 1..Len(chart_names) |->
                          path_join(output_folder, chart_names[i])]
    /\ pc' = "recap"
    /\ UNCHANGED <<file, df, outcome, missing_columns, processed_df, recap>>

\* __main__: if all_insights, the recap is built and written
WriteRecap ==
    /\ pc = "recap"
    /\ \/ /\ DOMAIN insights # {}
          /\ recap' = generate_recap_text(insights)
          /\ files' = files \cup {path_join(output_folder, recap_name)}
       \/ /\ DOMAIN insights = {}
          /\ UNCHANGED <<recap, files>>
    /\ pc' = "finish"
    /\ UNCHANGED <<file, df, outcome, missing_columns, processed_df, out_dir,
                   views, insights, chart_files>>

\* __main__: print("Analysis complete.")
Finish ==
    /\ pc = "finish"
    /\ pc' = "done"
    /\ UNCHANGED <<file, df, outcome, missing_columns, processed_df, out_dir,
                   files, views, insights, chart_files, recap>>

Next ==
    \/ ReadCsv
    \/ CheckColumns
    \/ CleanDates
    \/ CoerceEngagements
    \/ MainBranch
    \/ GenerateChartsAndInsights
    \/ WriteRecap
    \/ Finish

Spec == Init /\ [][Next]_vars

-----------------------------------------------------------------------------
(* The Top Locations block on validated tables of more rows than a raw     *)
(* file of the run above has: the run from the call of                     *)
(* generate_charts_and_insights on.                                        *)

\* a validated row: location l (a rank, or 0 for a missing one), engagements e
TopRow(l, e) ==
    <<Timestamp(2), Text(1), Text(1), IF l = 0 THEN NaN ELSE Text(l),
      Int64(e), Text(1)>>

\* n rows naming the locations 1..NumLocs one after the other from location
\* o on, upwards or downwards and around; the rows of location h count 2
\* engagements, the others 1
WideTable(o, up, n, h) ==
    [i \in 1..n |->
        LET l == IF up THEN ((o + i - 2) % NumLocs) + 1
                 ELSE ((o + n * NumLocs - i) % NumLocs) + 1
        IN  TopRow(l, IF l = h THEN 2 ELSE 1)]

\* tables of more locations than the view keeps
WideTables ==
    {WideTable(o, up, n, h) :
        o \in 1..NumLocs, up \in BOOLEAN, n \in 1..MaxTopRows, h \in 0..NumLocs}

\* shorter tables with a missing location and a negative count among the rows
TopRowsShort ==
    {TopRow(l, e) : l \in 0..2, e \in {-1, 1, 2}}

TopTables == WideTables \cup SeqsUpTo(TopRowsShort, MaxRows)

InitTop ==
    /\ pc = "generate"
    /\ file = [k |-> "read"]
    /\ df = None
    /\ outcome = "ok"
    /\ missing_columns = <<>>
    /\ processed_df \in {DataFrame(required_columns, rws) :
                            rws \in TopTables \ {<<>>}}
    /\ out_dir = FALSE
    /\ files = {}
    /\ views = None
    /\ insights = None
    /\ chart_files = <<>>
    /\ recap = <<>>

NextTop == GenerateChartsAndInsights

SpecTop == InitTop /\ [][NextTop]_vars

-----------------------------------------------------------------------------
(* generate_recap_text on any insight mapping.                             *)

Sentences == {"first sentence", "second sentence"}

\* lists of at most MaxInsights sentences, none of them twice
InsightLists ==
    {l \in SeqsUpTo(Sentences, MaxInsights) :
        \A i, j \in 1..Len(l) : i # j => l[i] # l[j]}

InsightKeys == {sections[n].key : n \in 1..Len(sections)}

InsightMappings == UNION {[K -> InsightLists] : K \in SUBSET InsightKeys}

InitRecap ==
    /\ pc = "recap_text"
    /\ file = [k |-> "read"]
    /\ df = None
    /\ outcome = "ok"
    /\ missing_columns = <<>>
    /\ processed_df = None
    /\ out_dir = FALSE
    /\ files = {}
    /\ views = None
    /\ insights \in InsightMappings
    /\ chart_files = <<>>
    /\ recap = <<>>

\* a call of generate_recap_text(insights)
RecapText ==
    /\ pc = "recap_text"
    /\ recap' = generate_recap_text(insights)
    /\ pc' = "recap_done"
    /\ UNCHANGED <<file, df, outcome, missing_columns, processed_df, out_dir,
                   files, views, insights, chart_files>>

NextRecap == RecapText

SpecRecap == InitRecap /\ [][NextRecap]_vars

-----------------------------------------------------------------------------
(* What the claims speak of, stated from the raw file and the validated    *)
(* table rather than through the operators above.                          *)

\* character a of a raw header is character b of a required name once
\* lowercased and with a space made an underscore
SameCharacter(a, b) ==
    \/ a = b
    \/ \E i \in 1..Len(UpperCase) : a = UpperCase[i] /\ b = LowerCase[i]
    \/ a = " " /\ b = "_"

SameName(raw, req) ==
    /\ Len(raw) = Len(req)
    /\ \A i \in 1..Len(req) : SameCharacter(raw[i], req[i])

\* the required names no column of the raw header stands for
AbsentNames ==
    {required_columns[f] : f \in {g \in Fields :
        \A i \in 1..Len(file.columns) : ~SameName(file.columns[i], required_columns[g])}}

IsTable == file.k = "table"

AllColumnsPresent == IsTable /\ AbsentNames = {}

\* the position in the raw file of the column standing for a required name
RawIndex(req) == CHOOSE i \in 1..Len(file.columns) : SameName(file.columns[i], req)

\* the raw rows whose date parses, in the order of the file
ParsedRawRows ==
    LET d == RawIndex(c_date)
        parses(row) == row[d].k = "datestr"
    IN  SelectSeq(file.rows, parses)

Returned == pc \in {"main", "generate", "recap", "finish", "done"}

Failures == {"NotFound", "EmptyInput", "ReadError", "MissingColumns", "NoValidRows"}

NothingWritten == ~out_dir /\ files = {} /\ chart_files = <<>> /\ recap = <<>>

\* cell of column name in row n of the validated table
Validated(n, name) == processed_df.rows[n][ColumnIndex(processed_df, name)]

ValidatedEngagements ==
    [n \in 1..Len(processed_df.rows) |-> Validated(n, c_engagements).v]

Generated == views # None

-----------------------------------------------------------------------------
\* C1: the totals of the Platform Engagements view add up to the sum of the
\* engagements of all rows of the validated table, rows of missing platform
\* included.
C1_PlatformTotalsAddUp ==
    Generated =>
        SumSeq(Vals(views.engagements_by_platform)) = SumSeq(ValidatedEngagements)

\* C2: every row of a table returned by process_csv_data has a valid date and
\* a non-negative integer as engagements, whatever the raw cell held.
C2_ValidatedRows ==
    processed_df # None =>
        \A n \in 1..Len(processed_df.rows) :
            /\ Validated(n, c_date).k = "ts"
            /\ Validated(n, c_engagements).k = "int"
            /\ Validated(n, c_engagements).v >= 0

\* the percentage reported with its total: within [0, 100], 0 for a total of 0
C3_InRange(pct, total) ==
    /\ 0 <= pct
    /\ pct <= 10000
    /\ total = 0 => pct = 0

\* C3: the three percentages of generate_charts_and_insights lie in [0, 100]
\* and are 0 when their total is 0.
C3_Percentages ==
    Generated =>
        /\ C3_InRange(insights.sentiment[1].pct, SumSeq(Vals(views.sentiment_counts)))
        /\ C3_InRange(insights.platform_engagements[1].pct,
                      SumSeq(Vals(views.engagements_by_platform)))
        /\ C3_InRange(insights.media_type[1].pct, SumSeq(Vals(views.media_type_counts)))

\* validated row n is raw row `raw` with its date parsed and its engagements
\* made an integer: 0 for a missing or non-numeric cell
C4_Corresponds(n, raw) ==
    /\ Len(processed_df.columns) = Len(file.columns)
    /\ \A i \in 1..Len(file.columns) :
          LET cell == processed_df.rows[n][i]
          IN  IF i = RawIndex(c_date)
              THEN cell = Timestamp(raw[i].day * SlotsPerDay + raw[i].slot)
              ELSE IF i = RawIndex(c_engagements)
              THEN /\ cell.k = "int"
                   /\ IF raw[i].k = "num"
                      THEN /\ 10 * cell.v - raw[i].v < 10
                           /\ raw[i].v - 10 * cell.v < 10
                      ELSE cell.v = 0
              ELSE cell = raw[i]

\* C4: with all required columns present, the returned table is exactly the
\* raw rows whose date parses, in their order; a row whose engagements are
\* missing or not a number is kept, with engagements 0.
C4_KeptRows ==
    (Returned /\ AllColumnsPresent) =>
        IF ParsedRawRows = <<>>
        THEN processed_df = None
        ELSE /\ processed_df # None
             /\ Len(processed_df.rows) = Len(ParsedRawRows)
             /\ \A n \in 1..Len(ParsedRawRows) : C4_Corresponds(n, ParsedRawRows[n])

C4_Witness ==
    /\ pc = "done"
    /\ AllColumnsPresent
    /\ processed_df # None
    /\ Len(processed_df.rows) = 2
    /\ Len(file.rows) = 3
    /\ file.rows[2][RawIndex(c_date)].k = "text"
    /\ file.rows[1][RawIndex(c_engagements)].k = "text"
    /\ file.rows[3][RawIndex(c_engagements)].k = "nan"
    /\ file.rows[1][RawIndex(c_date)] # file.rows[3][RawIndex(c_date)]

\* C5: a required name absent after normalization makes process_csv_data
\* fail with MissingColumns naming exactly the absent names, before any cell
\* is parsed, and no output directory is created in that run.
C5_MissingColumns ==
    (IsTable /\ Returned) =>
        /\ outcome = "MissingColumns" <=> AbsentNames # {}
        /\ AbsentNames # {} =>
              /\ Range(missing_columns) = AbsentNames
              /\ Len(missing_columns) = Cardinality(AbsentNames)
              /\ processed_df = None
              /\ df.rows = file.rows
              /\ NothingWritten

C5_Witness ==
    /\ pc = "done"
    /\ outcome = "MissingColumns"
    /\ Len(missing_columns) = 2
    /\ file.rows # <<>>
    /\ \E i \in 1..Len(file.columns) :
          /\ SameName(file.columns[i], c_media_type)
          /\ file.columns[i] # c_media_type
    /\ ExtraColumn \in Range(file.columns)

C7_FailureWritesNothing ==
    /\ (Returned /\ AllColumnsPresent /\ ParsedRawRows = <<>>) => outcome = "NoValidRows"
    /\ outcome \in Failures =>
          /\ processed_df = None
          /\ pc \in {"main", "finish", "done"}
          /\ views = None
          /\ insights = None
          /\ NothingWritten
          /\ pc # "done" => ENABLED Next

C7_Witness ==
    /\ pc = "done"
    /\ outcome = "NoValidRows"
    /\ Len(file.rows) >= 2
    /\ file.rows[1] # file.rows[2]

-----------------------------------------------------------------------------
(* Top Locations (under SpecTop).                                          *)

\* the locations named in the validated table
Locations ==
    {c \in {Validated(n, c_location) : n \in 1..Len(processed_df.rows)} : ~isna(c)}

\* the engagements of the rows of one location, added up
LocationSum(c) ==
    SumSeq([n \in 1..Len(processed_df.rows) |->
               IF Validated(n, c_location) = c THEN ValidatedEngagements[n] ELSE 0])

\* the first row naming a location
FirstRowOf(c) ==
    CHOOSE n \in 1..Len(processed_df.rows) :
        /\ Validated(n, c_location) = c
        /\ \A m \in 1..(n - 1) : Validated(m, c_location) # c

TopView == views.engagements_by_location

TopKeys == {TopView[i].key : i \in 1..Len(TopView)}

\* at most 5 entries, one per location, each with its sum, in descending
\* order, no location left out having a larger sum than one kept, and the
\* first entry reported as the top location
C8_LargestDescending ==
    /\ Len(TopView) <= 5
    /\ Len(TopView) = Min(5, Cardinality(Locations))
    /\ Cardinality(TopKeys) = Len(TopView)
    /\ TopKeys \subseteq Locations
    /\ \A i \in 1..Len(TopView) : TopView[i].val = LocationSum(TopView[i].key)
    /\ IsDescending(TopView)
    /\ \A c \in Locations \ TopKeys : \A k \in TopKeys : LocationSum(c) <= LocationSum(k)
    /\ insights.top_locations[1].name = (IF TopView # <<>> THEN TopView[1].key ELSE NA)

EncounteredBefore(a, b) == FirstRowOf(a) < FirstRowOf(b)

NamedBefore(a, b) == a.s < b.s

\* of two locations of equal sum, the first-encountered is ranked first, and
\* is the one kept when one of them is left out
C8_TiesFirstEncountered ==
    /\ \A i, j \in 1..Len(TopView) :
          (i < j /\ TopView[i].val = TopView[j].val)
              => EncounteredBefore(TopView[i].key, TopView[j].key)
    /\ \A c \in Locations \ TopKeys : \A k \in TopKeys :
          LocationSum(c) = LocationSum(k) => EncounteredBefore(k, c)

\* of two locations of equal sum, the one whose name sorts first is ranked
\* first, and is the one kept when one of them is left out
C8_TiesNameOrder ==
    /\ \A i, j \in 1..Len(TopView) :
          (i < j /\ TopView[i].val = TopView[j].val)
              => NamedBefore(TopView[i].key, TopView[j].key)
    /\ \A c \in Locations \ TopKeys : \A k \in TopKeys :
          LocationSum(c) = LocationSum(k) => NamedBefore(k, c)

\* C8 as stated: the Top Locations view has at most 5 entries in descending
\* order of summed engagements, holds the locations of largest sum, ranks the
\* first-encountered of two locations of equal sum first, and its first entry
\* is the reported top location.
C8_TopLocationsFirstEncountered ==
    Generated => (C8_LargestDescending /\ C8_TiesFirstEncountered)

\* C8 as amended: the same, but of two locations of equal sum the one whose
\* name sorts first is ranked first (the order of the grouped table), not the
\* first-encountered; rows of missing location count for no location.
C8_TopLocations ==
    Generated => (C8_LargestDescending /\ C8_TiesNameOrder)

C8_Witness ==
    /\ Generated
    /\ Cardinality(Locations) > 5
    /\ Len(TopView) = 5
    /\ TopView[1].val > TopView[2].val
    /\ TopView[2].val = TopView[3].val
    /\ EncounteredBefore(TopView[3].key, TopView[2].key)
    /\ \E c \in Locations \ TopKeys : LocationSum(c) = TopView[5].val

-----------------------------------------------------------------------------
(* Recap (under SpecRecap).                                                *)

IsHeading(line) == Len(line) = 2 /\ line[1] = "## "

IsBullet(line) == Len(line) = 2 /\ line[1] = "- "

\* the sections whose insight list is there and not empty, in the fixed order
NonEmptySections ==
    LET filled(sec) == IF sec.key \in DOMAIN insights
                       THEN insights[sec.key] # <<>> ELSE FALSE
    IN  SelectSeq(sections, filled)

FixedOrder ==
    <<"Sentiment Breakdown Insights", "Engagement Trend Over Time Insights",
      "Platform Engagements Insights", "Media Type Mix Insights",
      "Top 5 Locations by Engagements Insights">>

\* C9: generate_recap_text emits one "## " heading per view whose insight
\* list is not empty and none for an empty or absent one, in the fixed order,
\* each heading followed by one bullet line per sentence, in the list's order.
C9_RecapHeadings ==
    pc = "recap_done" =>
        LET headings == SelectSeq(recap, IsHeading)
            bullets == SelectSeq(recap, IsBullet)
            at(n) == CHOOSE p \in 1..Len(recap) : recap[p] = headings[n]
        IN  /\ [n \in 1..Len(sections) |-> sections[n].title] = FixedOrder
            /\ headings = [n \in 1..Len(NonEmptySections) |->
                              <<"## ", NonEmptySections[n].title>>]
            /\ \A n \in 1..Len(NonEmptySections) :
                  LET list == insights[NonEmptySections[n].key]
                      p == at(n)
                  IN  /\ p + Len(list) + 1 <= Len(recap)
                      /\ \A i \in 1..Len(list) : recap[p + i] = <<"- ", list[i]>>
                      /\ ~IsBullet(recap[p + Len(list) + 1])
            /\ Len(bullets) = SumSeq([n \in 1..Len(NonEmptySections) |->
                                         Len(insights[NonEmptySections[n].key])])

C9_Witness ==
    /\ pc = "recap_done"
    /\ "sentiment" \notin DOMAIN insights
    /\ "engagements_trend" \in DOMAIN insights
    /\ insights["engagements_trend"] = <<>>
    /\ "platform_engagements" \in DOMAIN insights
    /\ Len(insights["platform_engagements"]) = 2
    /\ "top_locations" \in DOMAIN insights
    /\ Len(insights["top_locations"]) = 1
    /\ Len(SelectSeq(recap, IsHeading)) = 2

-----------------------------------------------------------------------------
(* Engagement Trend (under Spec).                                          *)

\* the calendar days of the raw rows whose date parses
Days == {ParsedRawRows[n][RawIndex(c_date)].day : n \in 1..Len(ParsedRawRows)}

\* the engagements of the validated rows of one day, added up
DaySum(d) ==
    SumSeq([n \in 1..Len(ParsedRawRows) |->
               IF ParsedRawRows[n][RawIndex(c_date)].day = d
               THEN ValidatedEngagements[n] ELSE 0])

\* C10: the Engagement Trend view has one entry per calendar day with the
\* sum of that day's engagements; the reported highest date is a day of
\* largest sum, the lowest a day of smallest sum, and the reported total is
\* the sum of the engagements of all validated rows.
C10_EngagementTrend ==
    Generated =>
        LET view == views.engagement_by_date
            highest == insights.engagements_trend[1].date
            lowest == insights.engagements_trend[2].date
        IN  /\ {view[i].key : i \in 1..Len(view)} = {Date(d) : d \in Days}
            /\ Len(view) = Cardinality(Days)
            /\ \A i \in 1..Len(view) : view[i].val = DaySum(view[i].key.s)
            /\ highest.k = "text" /\ highest.s \in Days
            /\ \A d \in Days : DaySum(d) <= DaySum(highest.s)
            /\ lowest.k = "text" /\ lowest.s \in Days
            /\ \A d \in Days : DaySum(d) >= DaySum(lowest.s)
            /\ insights.engagements_trend[3].n = SumSeq(ValidatedEngagements)

C10_Witness ==
    /\ pc = "done"
    /\ Generated
    /\ Len(processed_df.rows) = 3
    /\ Cardinality(Days) = 2
    /\ Validated(1, c_date) # Validated(3, c_date)
    /\ DaySum(1) = 2
    /\ DaySum(2) = 2
    /\ Validated(2, c_engagements).v = 2

====
